---- MODULE Spec2Model ----
(***************************************************************************)
(* Material Requests router (src/router.py): the six handlers of           *)
(* /api/material-requests over the tables material_requests,               *)
(* material_request_items, users and inventory.                            *)
(*                                                                         *)
(* Spec    : the handlers run one after another, each in its own           *)
(*           transaction (one action per handler call).                    *)
(***************************************************************************)
EXTENDS Integers, Sequences, FiniteSets, TLC

\* ------------------------------------------------------------------ bounds
MaxRequests == 2          \* values the material_requests id sequence may hand out
MaxItems == 2             \* values the material_request_items id sequence may hand out
MaxPatches == 2           \* SpecTx: PatchItem calls that reach their UPDATE

\* ------------------------------------------------------- nullable values
\* A Python Optional / an SQL nullable column: <<>> is None / NULL, <<v>> is v.
None == <<>>
Some(v) == <<v>>
Val(o) == o[1]

\* SQL COALESCE(a, b) of two nullable values.
COALESCE(a, b) == IF a # None THEN a ELSE b

\* Python truthiness of an Optional[int]: None and 0 are both falsy.
Truthy(o) == o # None /\ Val(o) # 0

\* ------------------------------------------------------------------ users
ROLE_ADMIN_ID == 6
ROLE_OPERATOR_ID == 7

IntRole(n) == [t |-> "int", v |-> n, s |-> <<>>]
StrRole(chars) == [t |-> "str", v |-> 0, s |-> chars]

\* The rows of the users table: role_id as stored (NULL, an integer, or a text
\* that int() has to parse) and the soft-delete marker.
Users ==
    [u \in 1..6 |->
        CASE u = 1 -> [id |-> 1, role_id |-> Some(IntRole(ROLE_ADMIN_ID)), deleted |-> FALSE]
          [] u = 2 -> [id |-> 2, role_id |-> Some(IntRole(ROLE_OPERATOR_ID)), deleted |-> FALSE]
          [] u = 3 -> [id |-> 3, role_id |-> Some(IntRole(1)), deleted |-> FALSE]
          [] u = 4 -> [id |-> 4, role_id |-> None, deleted |-> FALSE]
          [] u = 5 -> [id |-> 5, role_id |-> Some(StrRole(<<"a", "b">>)), deleted |-> FALSE]
          [] u = 6 -> [id |-> 6, role_id |-> Some(IntRole(ROLE_ADMIN_ID)), deleted |-> TRUE]]

UserIds == DOMAIN Users

\* _get_user: the active row of the user, or None (the handler then raises 401).
get_user(user_id) ==
    IF user_id \in UserIds /\ ~Users[user_id].deleted THEN Some(Users[user_id]) ELSE None

Digits == <<"0", "1", "2", "3", "4", "5", "6", "7", "8", "9">>
IsDigit(c) == \E d \in 1..10 : Digits[d] = c
DigitVal(c) == (CHOOSE d \in 1..10 : Digits[d] = c) - 1

RECURSIVE DecimalValue(_)
DecimalValue(chars) ==
    IF chars = <<>> THEN 0
    ELSE 10 * DecimalValue(SubSeq(chars, 1, Len(chars) - 1)) + DigitVal(chars[Len(chars)])

\* Python int(x): the integer itself, the value of a decimal text, or an
\* exception (None here) for any other text.
int(x) ==
    IF x.t = "int" THEN Some(x.v)
    ELSE IF x.s # <<>> /\ \A k \in 1..Len(x.s) : IsDigit(x.s[k]) THEN Some(DecimalValue(x.s))
    ELSE None

\* Mutant of is_admin_or_operator: a role that is missing or does not parse
\* counts as privileged.
is_admin_or_operator_failopen(user) ==
    LET rid == IF user.role_id # None THEN int(Val(user.role_id)) ELSE None
    IN rid = None \/ rid \in {Some(ROLE_ADMIN_ID), Some(ROLE_OPERATOR_ID)}

\* _is_admin_or_operator: rid is None for a NULL role and after an exception.
is_admin_or_operator(user) ==
    LET rid == IF user.role_id # None THEN int(Val(user.role_id)) ELSE None
    IN rid \in {Some(ROLE_ADMIN_ID), Some(ROLE_OPERATOR_ID)}

\* ------------------------------------------------------------------ state
VARIABLES
    requests,     \* material_requests: id -> row (memo, warehouse_id, status, updated_at)
    items,        \* material_request_items: id -> row
    mrSeq,        \* last value handed out by the material_requests id sequence
    itemSeq,      \* last value handed out by the material_request_items id sequence
    inventory,    \* inventory: <<warehouse_id, product_id>> -> row (none, or its qty_on_hand)
    resp,         \* the last handler call's outcome: handler, HTTP status, body
    sess,         \* SpecTx: each database session's handler call in flight
    creates,      \* SpecTx, history: header id -> the Create that drew it
    patchLog      \* SpecTx, history: the committed PatchItem calls, in commit order

dbVars == <<requests, items, mrSeq, itemSeq, inventory>>
txVars == <<sess, creates, patchLog>>
vars == <<requests, items, mrSeq, itemSeq, inventory, resp, sess, creates, patchLog>>

\* Keys of the inventory table the model holds rows for, and what a key can hold:
\* no row, a row whose qty_on_hand is NULL, a row with a quantity.
InventoryKeys == {<<1, 1>>}
InventoryRows == {None, Some(None), Some(Some(3))}

\* ---------------------------------------------------------- derived reads
ItemsOf(mr_id) == {i \in DOMAIN items : items[i].material_request_id = mr_id}

\* The ids of a finite set of integers in ascending order (ORDER BY id ASC).
RECURSIVE Asc(_)
Asc(S) ==
    IF S = {} THEN <<>>
    ELSE LET m == CHOOSE x \in S : \A y \in S : x <= y IN <<m>> \o Asc(S \ {m})

\* ORDER BY id DESC.
RECURSIVE Desc(_)
Desc(S) ==
    IF S = {} THEN <<>>
    ELSE LET m == CHOOSE x \in S : \A y \in S : x >= y IN <<m>> \o Desc(S \ {m})

\* list_material_requests, the CASE WHEN EXISTS (...) column of one request.
list_prep_status(its, mr_id) ==
    IF \E i \in DOMAIN its :
          its[i].material_request_id = mr_id /\ its[i].prep_status = Some("PREPARING")
    THEN "PREPARING" ELSE "READY"

\* list_material_requests, one row of the SELECT (q = '' and year = 0: no filter).
list_row(its, mr_id) ==
    [id |-> mr_id,
     memo |-> COALESCE(requests[mr_id].memo, Some("")),
     status |-> requests[mr_id].status,
     warehouse_id |-> requests[mr_id].warehouse_id,
     updated_at |-> requests[mr_id].updated_at,
     prep_status |-> list_prep_status(its, mr_id)]

\* list_material_requests, the response body.
list_body(user, its) ==
    LET order == Desc(DOMAIN requests)
    IN [can_see_sensitive |-> is_admin_or_operator(user),
        items |-> [k \in 1..Len(order) |-> list_row(its, order[k])]]

\* get_material_request_detail, one row of the items SELECT.
detail_item_row(its, i) ==
    [id |-> i,
     material_request_id |-> its[i].material_request_id,
     product_id |-> its[i].product_id,
     qty_requested |-> COALESCE(its[i].qty_requested, Some(0)),
     qty_used |-> COALESCE(its[i].qty_used, Some(0)),
     note |-> COALESCE(its[i].note, Some("")),
     prep_status |-> its[i].prep_status]

\* Mutant of qty_on_hand_lookup: no inventory row gives None.
qty_on_hand_lookup_null(inv, wh, pid) ==
    LET row == IF <<wh, pid>> \in DOMAIN inv THEN inv[<<wh, pid>>] ELSE None
    IN IF row # None /\ Val(row) # None THEN Val(row) ELSE None

\* get_material_request_detail, the inventory SELECT and the float(...) line:
\* the quantity of the row, 0 when there is no row or its quantity is NULL.
qty_on_hand_lookup(inv, wh, pid) ==
    LET row == IF <<wh, pid>> \in DOMAIN inv THEN inv[<<wh, pid>>] ELSE None
    IN IF row # None /\ Val(row) # None THEN Val(row) ELSE Some(0)

\* get_material_request_detail, one element of items_out.
detail_item_out(can_see_sensitive, warehouse_id, r, inv) ==
    IF can_see_sensitive /\ Truthy(warehouse_id)
    THEN r @@ [qty_on_hand |-> IF Truthy(r.product_id)
                               THEN qty_on_hand_lookup(inv, Val(warehouse_id), Val(r.product_id))
                               ELSE None]
    ELSE [r EXCEPT !.qty_used = IF ~can_see_sensitive THEN None ELSE @] @@
         [qty_on_hand |-> None]

\* Mutant of detail_prep_status: only the first row decides.
detail_prep_status_first(rows) ==
    IF rows # <<>> /\ Head(rows).prep_status = Some("PREPARING") THEN "PREPARING" ELSE "READY"

\* get_material_request_detail, the "prep_status" loop over the item rows.
RECURSIVE detail_prep_status(_)
detail_prep_status(rows) ==
    IF rows = <<>> THEN "READY"
    ELSE IF Head(rows).prep_status = Some("PREPARING") THEN "PREPARING"
    ELSE detail_prep_status(Tail(rows))

\* get_material_request_detail, the response body for an existing request.
detail_body(user, mr_id, its, inv) ==
    LET can_see_sensitive == is_admin_or_operator(user)
        order == Asc({i \in DOMAIN its : its[i].material_request_id = mr_id})
        rows == [k \in 1..Len(order) |-> detail_item_row(its, order[k])]
    IN [can_see_sensitive |-> can_see_sensitive,
        header |-> [id |-> mr_id,
                    status |-> requests[mr_id].status,
                    warehouse_id |-> requests[mr_id].warehouse_id,
                    memo |-> COALESCE(requests[mr_id].memo, Some("")),
                    updated_at |-> requests[mr_id].updated_at],
        prep_status |-> detail_prep_status(rows),
        items |-> [k \in 1..Len(rows) |->
                      detail_item_out(can_see_sensitive, requests[mr_id].warehouse_id, rows[k], inv)]]

\* ------------------------------------------------------------ write side
\* create_material_request, the header INSERT: status 'DRAFT', memo and
\* warehouse_id from the payload; updated_at is not named (column default).
new_header(payload) ==
    [memo |-> Some(payload.memo),
     warehouse_id |-> payload.warehouse_id,
     status |-> "DRAFT",
     updated_at |-> None]

\* create_material_request, one item INSERT: prep_status 'PREPARING' and
\* qty_used 0 whatever the payload holds.
new_item(mr_id, it) ==
    [material_request_id |-> mr_id,
     product_id |-> it.product_id,
     qty_requested |-> Some(it.qty_requested),
     note |-> Some(it.note),
     prep_status |-> Some("PREPARING"),
     qty_used |-> Some(0)]

\* update_material_request, the SET clause of the UPDATE.
update_header_set(row, payload, t) ==
    [row EXCEPT !.memo = COALESCE(payload.memo, @),
                !.warehouse_id = COALESCE(payload.warehouse_id, @),
                !.updated_at = Some(t)]

\* Mutant of update_item_set: note is assigned without COALESCE.
update_item_set_overwrite(row, payload) ==
    [row EXCEPT !.prep_status = COALESCE(payload.prep_status, @),
                !.note = payload.note,
                !.qty_requested = COALESCE(payload.qty_requested, @),
                !.qty_used = COALESCE(payload.qty_used, @)]

\* Mutant of update_item_set: the arguments of COALESCE are swapped, so a
\* stored value is kept whenever there is one.
update_item_set_stored_first(row, payload) ==
    [row EXCEPT !.prep_status = COALESCE(@, payload.prep_status),
                !.note = COALESCE(@, payload.note),
                !.qty_requested = COALESCE(@, payload.qty_requested),
                !.qty_used = COALESCE(@, payload.qty_used)]

\* patch_material_request_item, the SET clause of the UPDATE.
update_item_set(row, payload) ==
    [row EXCEPT !.prep_status = COALESCE(payload.prep_status, @),
                !.note = COALESCE(payload.note, @),
                !.qty_requested = COALESCE(payload.qty_requested, @),
                !.qty_used = COALESCE(payload.qty_used, @)]

\* public.fn_material_request_mark_all_ready(:id): every item of the request
\* becomes READY (the function is SQL outside this file).
fn_material_request_mark_all_ready(its, mr_id) ==
    [i \in DOMAIN its |->
        IF its[i].material_request_id = mr_id
        THEN [its[i] EXCEPT !.prep_status = Some("READY")]
        ELSE its[i]]

\* The storage trigger on material_request_items.qty_used: when an UPDATE
\* changes the column it rewrites inventory in a way this file does not see.
inventory_after_trigger(inv, old_items, new_items) ==
    IF \E i \in DOMAIN old_items : old_items[i].qty_used # new_items[i].qty_used
    THEN [InventoryKeys -> InventoryRows]
    ELSE {inv}

\* --------------------------------------------------------------- handlers
\* What a handler call leaves behind: the HTTP status, the body, and the
\* committed tables and sequences (those of the state when nothing committed).
Outcome(code, body) ==
    [code |-> code, body |-> body,
     requests |-> requests, items |-> items, mrSeq |-> mrSeq, itemSeq |-> itemSeq]

\* Mutant of require_admin_or_operator: any active user passes.
require_active_user(user_id) == IF get_user(user_id) = None THEN 401 ELSE 0

\* require_admin_or_operator: 0 when the user passes, else the status raised.
require_admin_or_operator(user_id) ==
    LET user == get_user(user_id)
    IN IF user = None THEN 401
       ELSE IF is_admin_or_operator(Val(user)) THEN 0
       ELSE 403

\* GET "": any active user.
list_material_requests(user_id) ==
    LET user == get_user(user_id)
    IN IF user = None THEN Outcome(401, None)
       ELSE Outcome(200, Some(list_body(Val(user), items)))

\* POST "": require_admin_or_operator, the header INSERT (500 when it returns
\* no row), one INSERT per item, commit, {"id", "status"}.
create_material_request(user_id, payload, header_row) ==
    LET denied == require_admin_or_operator(user_id)
        n == Len(payload.items)
        mr_id == mrSeq + 1
    IN IF denied # 0 THEN Outcome(denied, None)
       ELSE IF ~header_row THEN Outcome(500, None)
       ELSE [code |-> 200,
             body |-> Some([id |-> mr_id, status |-> "DRAFT"]),
             requests |-> [r \in DOMAIN requests \cup {mr_id} |->
                              IF r = mr_id THEN new_header(payload) ELSE requests[r]],
             items |-> [i \in DOMAIN items \cup (itemSeq + 1)..(itemSeq + n) |->
                           IF i > itemSeq
                           THEN new_item(mr_id, payload.items[i - itemSeq])
                           ELSE items[i]],
             mrSeq |-> mr_id,
             itemSeq |-> itemSeq + n]

\* GET "/{mr_id}": any active user; 404 when the header SELECT finds no row.
get_material_request_detail(user_id, mr_id) ==
    LET user == get_user(user_id)
    IN IF user = None THEN Outcome(401, None)
       ELSE IF mr_id \notin DOMAIN requests THEN Outcome(404, None)
       ELSE Outcome(200, Some(detail_body(Val(user), mr_id, items, inventory)))

\* PUT "/{mr_id}": require_admin_or_operator, the UPDATE ... WHERE id = :id
\* (no row when the id is unknown), commit, {"ok": True}.  t is NOW().
update_material_request(user_id, mr_id, payload, t) ==
    LET denied == require_admin_or_operator(user_id)
    IN IF denied # 0 THEN Outcome(denied, None)
       ELSE [Outcome(200, Some("ok")) EXCEPT
                !.requests = [r \in DOMAIN requests |->
                                 IF r = mr_id THEN update_header_set(requests[r], payload, t)
                                 ELSE requests[r]]]

\* POST "/{mr_id}/mark-all-ready": require_admin_or_operator, the function
\* call, commit, {"ok": True}.
mark_all_ready(user_id, mr_id) ==
    LET denied == require_admin_or_operator(user_id)
    IN IF denied # 0 THEN Outcome(denied, None)
       ELSE [Outcome(200, Some("ok")) EXCEPT
                !.items = fn_material_request_mark_all_ready(items, mr_id)]

\* Mutant of qty_used_forbidden: the gate is never raised.
qty_used_open(user, payload) == FALSE

\* patch_material_request_item, "if payload.qty_used is not None and not
\* can_edit_sensitive".
qty_used_forbidden(user, payload) ==
    payload.qty_used # None /\ ~is_admin_or_operator(user)

\* Mutant of prep_status_invalid: every value passes.
prep_status_unchecked(payload) == FALSE

\* patch_material_request_item, "if payload.prep_status is not None and
\* payload.prep_status not in ('PREPARING', 'READY')".
prep_status_invalid(payload) ==
    payload.prep_status # None /\ payload.prep_status \notin {Some("PREPARING"), Some("READY")}

\* PATCH "/items/{item_id}": the qty_used gate (403), the prep_status check
\* (400), the UPDATE ... WHERE id = :id (no row when the id is unknown),
\* commit, {"ok": True}.
patch_material_request_item(user_id, item_id, payload) ==
    LET user == get_user(user_id)
    IN IF user = None THEN Outcome(401, None)
       ELSE IF qty_used_forbidden(Val(user), payload) THEN Outcome(403, None)
       ELSE IF prep_status_invalid(payload) THEN Outcome(400, None)
       ELSE [Outcome(200, Some("ok")) EXCEPT
                !.items = [i \in DOMAIN items |->
                              IF i = item_id THEN update_item_set(items[i], payload)
                              ELSE items[i]]]

\* ----------------------------------------------------------------- inputs
WarehouseIdInputs == {None, Some(0), Some(1)}
ProductIdInputs == {None, Some(0), Some(1)}

RECURSIVE SeqsUpTo(_, _)
SeqsUpTo(S, n) ==
    IF n = 0 THEN {<<>>}
    ELSE LET shorter == SeqsUpTo(S, n - 1)
         IN shorter \cup {Append(q, x) : q \in {r \in shorter : Len(r) = n - 1}, x \in S}

\* The request bodies the properties quantify over.
MRItemIn == [product_id : ProductIdInputs, qty_requested : {1}, note : {"n"}]
MRCreateIn == [memo : {"m"}, warehouse_id : WarehouseIdInputs, items : SeqsUpTo(MRItemIn, 2)]
MRUpdateIn == [memo : {None, Some(""), Some("m")}, warehouse_id : WarehouseIdInputs]
MRItemPatchIn ==
    [prep_status : {None, Some("PREPARING"), Some("READY"), Some("DONE")},
     qty_used : {None, Some(0), Some(1)},
     note : {None, Some(""), Some("n")},
     qty_requested : {None, Some(1)}]

\* Path parameters: every id a sequence can hand out, and one it never does.
MrIdInputs == 1..(MaxRequests + 1)
ItemIdInputs == 1..(MaxItems + 1)

\* What NOW() can return.
NowReadings == {0, 1}

\* ---------------------------------------------------------------- actions
Responded(op, out) == resp' = [op |-> op, code |-> out.code, body |-> out.body]

Committed(out) ==
    /\ requests' = out.requests
    /\ items' = out.items
    /\ mrSeq' = out.mrSeq
    /\ itemSeq' = out.itemSeq

List(user_id) ==
    /\ Responded("list", list_material_requests(user_id))
    /\ UNCHANGED <<dbVars, txVars>>

Create(user_id, payload, header_row) ==
    LET out == create_material_request(user_id, payload, header_row)
    IN /\ out.mrSeq <= MaxRequests
       /\ out.itemSeq <= MaxItems
       /\ Committed(out)
       /\ Responded("create", out)
       /\ UNCHANGED <<inventory, txVars>>

GetDetail(user_id, mr_id) ==
    /\ Responded("detail", get_material_request_detail(user_id, mr_id))
    /\ UNCHANGED <<dbVars, txVars>>

UpdateHeader(user_id, mr_id, payload, t) ==
    LET out == update_material_request(user_id, mr_id, payload, t)
    IN /\ Committed(out)
       /\ Responded("update", out)
       /\ UNCHANGED <<inventory, txVars>>

MarkAllReady(user_id, mr_id) ==
    LET out == mark_all_ready(user_id, mr_id)
    IN /\ Committed(out)
       /\ Responded("mark_all_ready", out)
       /\ UNCHANGED <<inventory, txVars>>

PatchItem(user_id, item_id, payload) ==
    LET out == patch_material_request_item(user_id, item_id, payload)
    IN /\ Committed(out)
       /\ Responded("patch", out)
       /\ inventory' \in inventory_after_trigger(inventory, items, out.items)
       /\ UNCHANGED txVars

\* ---------------------------------------------------------- specifications
Sessions == {1, 2}
IdleSession == [pc |-> "idle"]

InitTables ==
    /\ requests = <<>>
    /\ items = <<>>
    /\ mrSeq = 0
    /\ itemSeq = 0
    /\ resp = [op |-> "none", code |-> 0, body |-> None]
    /\ sess = [s \in Sessions |-> IdleSession]
    /\ creates = <<>>
    /\ patchLog = <<>>

\* Empty tables and no inventory rows.
Init == InitTables /\ inventory = [k \in InventoryKeys |-> None]

\* The callers of SpecVis, SpecMerge and SpecTx: an Admin, a user of another
\* role and a deleted user; the properties quantify over every user.
CallerIds == {1, 3, 6}

\* Empty tables and any inventory.
InitStocked == InitTables /\ inventory \in [InventoryKeys -> InventoryRows]

\* Spec: the six handlers called one after another by any user.  The calls
\* vary the items' prep_status and the requests' timestamp.
StatusCreateIn == [memo : {""}, warehouse_id : {None},
                   items : SeqsUpTo([product_id : {None}, qty_requested : {0}, note : {""}], MaxItems)]
StatusPatchIn == [prep_status : {None, Some("PREPARING"), Some("READY"), Some("DONE")},
                  qty_used : {None, Some(0)}, note : {None}, qty_requested : {None}]

Next ==
    \E u \in UserIds :
        \/ List(u)
        \/ \E payload \in StatusCreateIn, header_row \in BOOLEAN : Create(u, payload, header_row)
        \/ \E mr_id \in MrIdInputs : GetDetail(u, mr_id)
        \/ \E mr_id \in MrIdInputs : UpdateHeader(u, mr_id, [memo |-> None, warehouse_id |-> None], 0)
        \/ \E mr_id \in MrIdInputs : MarkAllReady(u, mr_id)
        \/ \E item_id \in ItemIdInputs, payload \in StatusPatchIn : PatchItem(u, item_id, payload)

Spec == Init /\ [][Next]_vars

\* SpecVis: the same handlers; the calls create one request of MaxItems items
\* and vary its warehouse, the items' products and used quantities, and
\* (through the trigger) the inventory.
VisCreateIn ==
    {c \in [memo : {""}, warehouse_id : WarehouseIdInputs,
            items : SeqsUpTo([product_id : ProductIdInputs, qty_requested : {0}, note : {""}], MaxItems)] :
        Len(c.items) = MaxItems /\ \A k \in 2..MaxItems : c.items[k].product_id = Some(1)}
VisPatchIn == [prep_status : {None}, qty_used : {None, Some(0), Some(1)},
               note : {None}, qty_requested : {None}]

NextVis ==
    \E u \in CallerIds :
        \/ List(u)
        \/ \E payload \in VisCreateIn, header_row \in BOOLEAN : Create(u, payload, header_row)
        \/ \E mr_id \in MrIdInputs : GetDetail(u, mr_id)
        \/ \E mr_id \in MrIdInputs : UpdateHeader(u, mr_id, [memo |-> None, warehouse_id |-> None], 0)
        \/ \E mr_id \in MrIdInputs : MarkAllReady(u, mr_id)
        \/ \E item_id \in ItemIdInputs, payload \in VisPatchIn : PatchItem(u, item_id, payload)

SpecVis == InitStocked /\ [][NextVis]_vars

\* SpecMerge: the same handlers; the calls create one request of MaxItems
\* items and vary every field UpdateHeader and PatchItem can write, one field
\* per call, on the request and on its first item.
MergeCreateIn ==
    {c \in [memo : {""}, warehouse_id : {None, Some(1)},
            items : SeqsUpTo([product_id : {None}, qty_requested : {0}, note : {""}], MaxItems)] :
        Len(c.items) = MaxItems}
MergeUpdateIn ==
    {p \in [memo : {None, Some("m")}, warehouse_id : {None, Some(1)}] :
        p.memo = None \/ p.warehouse_id = None}
MergePatchIn ==
    {p \in MRItemPatchIn :
        Cardinality({f \in {"prep_status", "qty_used", "note", "qty_requested"} : p[f] # None}) <= 1}

NextMerge ==
    \E u \in CallerIds :
        \/ List(u)
        \/ \E payload \in MergeCreateIn, header_row \in BOOLEAN : Create(u, payload, header_row)
        \/ \E mr_id \in MrIdInputs : GetDetail(u, mr_id)
        \/ \E mr_id \in MrIdInputs, payload \in MergeUpdateIn, t \in NowReadings :
              UpdateHeader(u, mr_id, payload, t)
        \/ \E mr_id \in MrIdInputs : MarkAllReady(u, mr_id)
        \/ \E item_id \in {1, MaxItems + 1}, payload \in MergePatchIn : PatchItem(u, item_id, payload)

SpecMerge == Init /\ [][NextMerge]_vars

\* ------------------------------------------------- SpecTx: two sessions
\* Each handler call runs in its own database session (Depends(get_db)); two
\* calls are in flight at once and interleave statement by statement.  A
\* session's INSERTs and UPDATE stay its own until db.commit(); an UPDATE holds
\* the lock of the row it wrote until then, and a second UPDATE of that row
\* waits and then sets its columns on the committed row.

\* Mutant of committed_before_commit: every statement commits by itself.
committed_by_each_statement(written) == written

\* create_material_request: the rows among those the call has written that are
\* committed before it reaches db.commit(), which follows the item loop: none.
committed_before_commit(written) == {}

\* A handler that raises before db.commit(): the session is closed and what
\* it wrote and did not commit is gone.
rollback(s) == [sess EXCEPT ![s] = IdleSession]

CreatesInFlight == {s \in Sessions : sess[s].pc \in {"insert_header", "insert_item", "commit_create"}}
PatchesInFlight == {s \in Sessions : sess[s].pc \in {"update", "commit_patch"}}

RECURSIVE SumOver(_, _)
SumOver(S, f) ==
    IF S = {} THEN 0
    ELSE LET x == CHOOSE y \in S : TRUE IN f[x] + SumOver(S \ {x}, f)

\* Sequence values the calls in flight have yet to draw.
HeadersToDraw == Cardinality({s \in Sessions : sess[s].pc = "insert_header"})
ItemsToDraw ==
    SumOver(CreatesInFlight,
            [s \in CreatesInFlight |-> Len(sess[s].payload.items) - (sess[s].k - 1)])

\* The rows of a Create in flight that other sessions can read.
VisibleHeader(c, header) ==
    IF "header" \in committed_before_commit({"header"}) THEN header ELSE None
VisibleItems(c, new_items) ==
    {i \in DOMAIN new_items : i \in committed_before_commit(DOMAIN new_items)}

PublishRequests(mr_id, header) ==
    IF header = None THEN requests
    ELSE [r \in DOMAIN requests \cup {mr_id} |-> IF r = mr_id THEN Val(header) ELSE requests[r]]

PublishItems(new_items, ids) ==
    [i \in DOMAIN items \cup ids |-> IF i \in ids THEN new_items[i] ELSE items[i]]

\* POST "": require_admin_or_operator, before the first statement.
TxCreateBegin(s, user_id, payload) ==
    LET denied == require_admin_or_operator(user_id)
    IN /\ sess[s].pc = "idle"
       /\ IF denied # 0
          THEN /\ resp' = [op |-> "create", code |-> denied, body |-> None]
               /\ UNCHANGED sess
          ELSE /\ mrSeq + HeadersToDraw < MaxRequests
               /\ itemSeq + ItemsToDraw + Len(payload.items) <= MaxItems
               /\ sess' = [sess EXCEPT ![s] = [pc |-> "insert_header", payload |-> payload,
                                               mr_id |-> 0, k |-> 1, new_items |-> <<>>]]
               /\ UNCHANGED resp
       /\ UNCHANGED <<dbVars, creates, patchLog>>

\* The header INSERT ... RETURNING id; with no row the handler raises 500.
TxInsertHeader(s, header_row) ==
    LET c == sess[s]
        mr_id == mrSeq + 1
        header == Some(new_header(c.payload))
    IN /\ c.pc = "insert_header"
       /\ IF header_row
          THEN /\ mrSeq' = mr_id
               /\ requests' = PublishRequests(mr_id, VisibleHeader(c, header))
               /\ creates' = [r \in DOMAIN creates \cup {mr_id} |->
                                 IF r = mr_id
                                 THEN [n |-> Len(c.payload.items), inserted |-> 0, state |-> "running"]
                                 ELSE creates[r]]
               /\ sess' = [sess EXCEPT ![s] =
                              [c EXCEPT !.mr_id = mr_id,
                                        !.pc = IF Len(c.payload.items) = 0 THEN "commit_create"
                                               ELSE "insert_item"]]
               /\ UNCHANGED resp
          ELSE /\ sess' = rollback(s)
               /\ resp' = [op |-> "create", code |-> 500, body |-> None]
               /\ UNCHANGED <<mrSeq, requests, creates>>
       /\ UNCHANGED <<items, itemSeq, inventory, patchLog>>

\* One round of "for it in payload.items": the INSERT succeeds or raises.
TxInsertItem(s, ok) ==
    LET c == sess[s]
        id == itemSeq + 1
        new_items == [i \in DOMAIN c.new_items \cup {id} |->
                         IF i = id THEN new_item(c.mr_id, c.payload.items[c.k]) ELSE c.new_items[i]]
    IN /\ c.pc = "insert_item"
       /\ itemSeq' = id
       /\ IF ok
          THEN /\ items' = PublishItems(new_items, VisibleItems(c, new_items))
               /\ creates' = [creates EXCEPT ![c.mr_id].inserted = c.k]
               /\ sess' = [sess EXCEPT ![s] =
                              [c EXCEPT !.new_items = new_items, !.k = c.k + 1,
                                        !.pc = IF c.k = Len(c.payload.items) THEN "commit_create"
                                               ELSE "insert_item"]]
               /\ UNCHANGED resp
          ELSE /\ sess' = rollback(s)
               /\ creates' = [creates EXCEPT ![c.mr_id].state = "failed"]
               /\ resp' = [op |-> "create", code |-> 500, body |-> None]
               /\ UNCHANGED items
       /\ UNCHANGED <<requests, mrSeq, inventory, patchLog>>

\* db.commit() and the return of create_material_request.
TxCreateCommit(s) ==
    LET c == sess[s]
    IN /\ c.pc = "commit_create"
       /\ requests' = PublishRequests(c.mr_id, Some(new_header(c.payload)))
       /\ items' = PublishItems(c.new_items, DOMAIN c.new_items)
       /\ creates' = [creates EXCEPT ![c.mr_id].state = "committed"]
       /\ sess' = [sess EXCEPT ![s] = IdleSession]
       /\ resp' = [op |-> "create", code |-> 200,
                   body |-> Some([id |-> c.mr_id, status |-> "DRAFT"])]
       /\ UNCHANGED <<mrSeq, itemSeq, inventory, patchLog>>

\* PATCH "/items/{item_id}": _get_user and the two checks, before the UPDATE.
TxPatchBegin(s, user_id, item_id, payload) ==
    LET user == get_user(user_id)
        code == IF user = None THEN 401
                ELSE IF qty_used_forbidden(Val(user), payload) THEN 403
                ELSE IF prep_status_invalid(payload) THEN 400
                ELSE 0
    IN /\ sess[s].pc = "idle"
       /\ IF code # 0
          THEN /\ resp' = [op |-> "patch", code |-> code, body |-> None]
               /\ UNCHANGED sess
          ELSE /\ Len(patchLog) + Cardinality(PatchesInFlight) < MaxPatches
               /\ sess' = [sess EXCEPT ![s] = [pc |-> "update", item_id |-> item_id,
                                               payload |-> payload, row |-> None,
                                               overlapped |-> FALSE]]
               /\ UNCHANGED resp
       /\ UNCHANGED <<dbVars, creates, patchLog>>

\* Another session has updated the row and not yet committed.
RowLockedByOther(s, item_id) ==
    \E o \in Sessions \ {s} :
        sess[o].pc = "commit_patch" /\ sess[o].item_id = item_id /\ sess[o].row # None

\* The UPDATE ... WHERE id = :id, on the committed row once its lock is free.
TxPatchUpdate(s) ==
    LET c == sess[s]
    IN /\ c.pc = "update"
       /\ ~RowLockedByOther(s, c.item_id)
       /\ sess' = [sess EXCEPT ![s] =
                      [c EXCEPT !.pc = "commit_patch",
                                !.row = IF c.item_id \in DOMAIN items
                                        THEN Some(update_item_set(items[c.item_id], c.payload))
                                        ELSE None]]
       /\ UNCHANGED <<dbVars, resp, creates, patchLog>>

\* db.commit() and the return of patch_material_request_item.
TxPatchCommit(s) ==
    LET c == sess[s]
        others == {o \in PatchesInFlight \ {s} : sess[o].item_id = c.item_id}
    IN /\ c.pc = "commit_patch"
       /\ items' = IF c.row = None THEN items ELSE [items EXCEPT ![c.item_id] = Val(c.row)]
       /\ inventory' \in inventory_after_trigger(inventory, items, items')
       /\ patchLog' = IF c.row = None THEN patchLog
                      ELSE Append(patchLog, [item_id |-> c.item_id, payload |-> c.payload,
                                             overlapped |-> c.overlapped \/ others # {}])
       /\ sess' = [o \in Sessions |->
                      IF o = s THEN IdleSession
                      ELSE IF o \in others THEN [sess[o] EXCEPT !.overlapped = TRUE]
                      ELSE sess[o]]
       /\ resp' = [op |-> "patch", code |-> 200, body |-> Some("ok")]
       /\ UNCHANGED <<requests, mrSeq, itemSeq, creates>>

TxItemIn == [product_id |-> None, qty_requested |-> 0, note |-> ""]
TxCreateIn == [memo : {""}, warehouse_id : {None}, items : SeqsUpTo({TxItemIn}, MaxItems)]
TxPatch(prep_status, note) ==
    [prep_status |-> prep_status, qty_used |-> None, note |-> note, qty_requested |-> None]
TxPatchIn == {TxPatch(Some("READY"), Some("n")), TxPatch(Some("PREPARING"), None),
              TxPatch(None, Some("o")), TxPatch(Some("DONE"), None)}

NextTx ==
    \E s \in Sessions :
        \/ \E u \in CallerIds, payload \in TxCreateIn : TxCreateBegin(s, u, payload)
        \/ \E header_row \in BOOLEAN : TxInsertHeader(s, header_row)
        \/ \E ok \in BOOLEAN : TxInsertItem(s, ok)
        \/ TxCreateCommit(s)
        \/ \E u \in CallerIds, item_id \in {1, MaxItems + 1}, payload \in TxPatchIn :
              TxPatchBegin(s, u, item_id, payload)
        \/ TxPatchUpdate(s)
        \/ TxPatchCommit(s)

SpecTx == Init /\ [][NextTx]_vars

\* ------------------------------------------------------------- properties
ActiveUserIds == {u \in UserIds : get_user(u) # None}
Privileged == {u \in ActiveUserIds : is_admin_or_operator(Users[u])}
Unprivileged == ActiveUserIds \ Privileged

SameTables(out) ==
    /\ out.requests = requests
    /\ out.items = items
    /\ out.mrSeq = mrSeq
    /\ out.itemSeq = itemSeq

HasPreparing(mr_id) == \E i \in ItemsOf(mr_id) : items[i].prep_status = Some("PREPARING")
AllReady(mr_id) == \A i \in ItemsOf(mr_id) : items[i].prep_status = Some("READY")

\* C1: in every reachable state, for every active caller and every request,
\* the prep_status of the GetDetail response and of the request's List row is
\* PREPARING iff one of the request's items is PREPARING, and READY when the
\* request has no items or all its items are READY.
C1_AggregateStatus ==
    \A u \in ActiveUserIds, r \in DOMAIN requests :
        LET detail == Val(get_material_request_detail(u, r).body)
            rows == Val(list_material_requests(u).body).items
        IN /\ detail.prep_status = "PREPARING" <=> HasPreparing(r)
           /\ AllReady(r) => detail.prep_status = "READY"
           /\ \A k \in 1..Len(rows) :
                 rows[k].id = r => rows[k].prep_status = detail.prep_status

\* C1 witness: a PatchItem has made one of a request's two items READY while
\* the other is still PREPARING.
C1_Witness ==
    /\ resp.op = "patch" /\ resp.code = 200
    /\ \E r \in DOMAIN requests :
          /\ Cardinality(ItemsOf(r)) = 2
          /\ HasPreparing(r)
          /\ \E i \in ItemsOf(r) : items[i].prep_status = Some("READY")

BadPrepPatches == {p \in MRItemPatchIn : p.prep_status = Some("DONE")}

\* C3 as claimed: a PatchItem of an existing item whose prepStatus is neither
\* PREPARING nor READY answers 400 and changes nothing, for every active
\* caller and whatever else the patch carries.
C3_Original ==
    \A u \in ActiveUserIds, i \in DOMAIN items, p \in BadPrepPatches :
        LET out == patch_material_request_item(u, i, p)
        IN out.code = 400 /\ SameTables(out)

\* C3 as amended: such a PatchItem changes nothing and answers 400, or 403
\* when it also carries usedQty and the caller lacks the sensitive capability;
\* and every stored prep_status is PREPARING or READY.
C3_InvalidPrepStatus ==
    /\ \A u \in ActiveUserIds, i \in ItemIdInputs, p \in BadPrepPatches :
          LET out == patch_material_request_item(u, i, p)
          IN /\ SameTables(out)
             /\ out.code = IF p.qty_used # None /\ u \in Unprivileged THEN 403 ELSE 400
    /\ \A i \in DOMAIN items : items[i].prep_status \in {Some("PREPARING"), Some("READY")}

\* C3 witness: a PatchItem was answered 400 while items are stored.
C3_Witness == resp.op = "patch" /\ resp.code = 400 /\ items # <<>>

\* C4: Create, UpdateHeader and MarkAllReady called by an active user who is
\* neither Admin nor Operator answer 403 and leave every table as it is.
C4_SensitiveOperations ==
    \A u \in Unprivileged :
        /\ \A payload \in MRCreateIn, header_row \in BOOLEAN :
              LET out == create_material_request(u, payload, header_row)
              IN out.code = 403 /\ SameTables(out)
        /\ \A mr_id \in MrIdInputs, payload \in MRUpdateIn, t \in NowReadings :
              LET out == update_material_request(u, mr_id, payload, t)
              IN out.code = 403 /\ SameTables(out)
        /\ \A mr_id \in MrIdInputs :
              LET out == mark_all_ready(u, mr_id)
              IN out.code = 403 /\ SameTables(out)

\* C4 witness: a request with a PREPARING item exists and a MarkAllReady was
\* answered 403.
C4_Witness ==
    /\ resp.op = "mark_all_ready" /\ resp.code = 403
    /\ \E r \in DOMAIN requests : HasPreparing(r)

\* C9 as claimed: GetDetail, UpdateHeader and MarkAllReady on a request id
\* that does not exist, and PatchItem on an item id that does not exist,
\* answer 404.
C9_NotFound ==
    \A u \in Privileged :
        /\ \A mr_id \in MrIdInputs \ DOMAIN requests :
              /\ get_material_request_detail(u, mr_id).code = 404
              /\ \A payload \in MRUpdateIn, t \in NowReadings :
                    update_material_request(u, mr_id, payload, t).code = 404
              /\ mark_all_ready(u, mr_id).code = 404
        /\ \A item_id \in ItemIdInputs \ DOMAIN items, p \in MRItemPatchIn :
              p.prep_status # Some("DONE") =>
                  patch_material_request_item(u, item_id, p).code = 404

QtyUsedKept(out) ==
    \A i \in DOMAIN items : i \in DOMAIN out.items /\ out.items[i].qty_used = items[i].qty_used

\* C2: a PatchItem that carries usedQty from an active caller without the
\* sensitive capability answers 403 and leaves every table as it is, whatever
\* else it carries; and no handler call changes a stored qty_used unless it is
\* a PatchItem from an Admin or Operator.
C2_UsedQtyGate ==
    /\ \A u \in Unprivileged, i \in ItemIdInputs, p \in MRItemPatchIn :
          p.qty_used # None =>
              LET out == patch_material_request_item(u, i, p)
              IN out.code = 403 /\ SameTables(out)
    /\ \A u \in UserIds :
          /\ \A payload \in MRCreateIn, header_row \in BOOLEAN :
                QtyUsedKept(create_material_request(u, payload, header_row))
          /\ \A mr_id \in MrIdInputs :
                /\ QtyUsedKept(mark_all_ready(u, mr_id))
                /\ \A payload \in MRUpdateIn, t \in NowReadings :
                      QtyUsedKept(update_material_request(u, mr_id, payload, t))
    /\ \A u \in UserIds \ Privileged, i \in ItemIdInputs, p \in MRItemPatchIn :
          QtyUsedKept(patch_material_request_item(u, i, p))

\* C2 witness: a PatchItem was answered 403 while an item with a non-zero
\* used quantity is stored.
C2_Witness ==
    /\ resp.op = "patch" /\ resp.code = 403
    /\ \E i \in DOMAIN items : items[i].qty_used = Some(1)

InventoryRowOf(wh, pid) ==
    IF wh # None /\ pid # None /\ <<Val(wh), Val(pid)>> \in DOMAIN inventory
    THEN inventory[<<Val(wh), Val(pid)>>]
    ELSE None

\* C5 as claimed: in the GetDetail response an item's qty_on_hand is a number
\* only when the caller has the sensitive capability, the request's
\* warehouse_id is set and the item's product_id is set, and None otherwise;
\* when all three hold and inventory has no row for the pair, it is 0.
C5_Original ==
    \A u \in ActiveUserIds, r \in DOMAIN requests :
        LET out == Val(get_material_request_detail(u, r).body).items
            wh == requests[r].warehouse_id
        IN \A k \in 1..Len(out) :
              LET all3 == u \in Privileged /\ wh # None /\ out[k].product_id # None
              IN /\ "qty_on_hand" \in DOMAIN out[k]
                 /\ ~all3 => out[k].qty_on_hand = None
                 /\ all3 /\ InventoryRowOf(wh, out[k].product_id) = None
                       => out[k].qty_on_hand = Some(0)

\* C5 as amended: the same with an id of 0 counting as not set: qty_on_hand
\* is a number exactly when the caller has the sensitive capability and
\* warehouse_id and product_id are both set and not 0; it is then the
\* quantity of the inventory row, and 0 when there is no row or the row holds
\* no quantity; in every other case the field is present and None.
C5_QtyOnHand ==
    \A u \in ActiveUserIds, r \in DOMAIN requests :
        LET out == Val(get_material_request_detail(u, r).body).items
            wh == requests[r].warehouse_id
        IN \A k \in 1..Len(out) :
              LET all3 == u \in Privileged /\ Truthy(wh) /\ Truthy(out[k].product_id)
                  row == InventoryRowOf(wh, out[k].product_id)
              IN /\ "qty_on_hand" \in DOMAIN out[k]
                 /\ ~all3 => out[k].qty_on_hand = None
                 /\ all3 /\ row = None => out[k].qty_on_hand = Some(0)
                 /\ all3 /\ row = Some(None) => out[k].qty_on_hand = Some(0)
                 /\ all3 /\ row # None /\ row # Some(None) => out[k].qty_on_hand = Val(row)

\* C5 witness: a privileged caller got the detail of a request with a
\* warehouse, an item with a product and no inventory row for the pair.
C5_Witness ==
    /\ resp.op = "detail" /\ resp.code = 200
    /\ Val(resp.body).can_see_sensitive
    /\ \E k \in 1..Len(Val(resp.body).items) :
          /\ Val(resp.body).items[k].qty_on_hand = Some(0)
          /\ InventoryRowOf(Val(resp.body).header.warehouse_id,
                            Val(resp.body).items[k].product_id) = None

\* The role_id is NULL, a text that is no number, or a number other than the
\* two privileged ids.
RoleNotPrivileged(user) ==
    \/ user.role_id = None
    \/ Val(user.role_id).t = "str" /\ \E k \in 1..Len(Val(user.role_id).s) : ~IsDigit(Val(user.role_id).s[k])
    \/ Val(user.role_id).t = "int" /\ Val(user.role_id).v \notin {ROLE_ADMIN_ID, ROLE_OPERATOR_ID}

\* The items table with every qty_used replaced.
WithQtyUsed(alt) == [i \in DOMAIN items |-> [items[i] EXCEPT !.qty_used = alt[i]]]

\* C6: a user whose role_id is not one of the two privileged ids (missing and
\* unparseable included) has no sensitive capability; the GetDetail response
\* to such a user shows None for every qty_used and qty_on_hand, the List
\* rows hold neither field, and both responses are the same for every other
\* choice of stored used quantities and inventory rows.
C6_NoSensitiveValues ==
    \A u \in ActiveUserIds :
        RoleNotPrivileged(Users[u]) =>
            /\ ~is_admin_or_operator(Users[u])
            /\ \A k \in 1..Len(Val(list_material_requests(u).body).items) :
                  DOMAIN Val(list_material_requests(u).body).items[k]
                      \cap {"qty_used", "qty_on_hand"} = {}
            /\ \A r \in DOMAIN requests :
                  LET body == Val(get_material_request_detail(u, r).body)
                  IN /\ ~body.can_see_sensitive
                     /\ \A k \in 1..Len(body.items) :
                           body.items[k].qty_used = None /\ body.items[k].qty_on_hand = None
                     /\ \A alt \in [DOMAIN items -> {Some(0), Some(1)}],
                           inv \in [InventoryKeys -> InventoryRows] :
                           /\ detail_body(Users[u], r, WithQtyUsed(alt), inv) = body
                           /\ list_body(Users[u], WithQtyUsed(alt)) = list_body(Users[u], items)

\* C6 witness: a caller without the capability got the detail of a request
\* that has a warehouse, an item with a product and a used quantity, and an
\* inventory row with a quantity.
C6_Witness ==
    /\ resp.op = "detail" /\ resp.code = 200
    /\ ~Val(resp.body).can_see_sensitive
    /\ \E i \in DOMAIN items :
          /\ items[i].material_request_id = Val(resp.body).header.id
          /\ items[i].qty_used = Some(1)
          /\ InventoryRowOf(requests[items[i].material_request_id].warehouse_id,
                            items[i].product_id) = Some(Some(3))

Merged(new, old) == IF new # None THEN new ELSE old

\* C7: an accepted UpdateHeader writes memo and warehouse_id where the call
\* carries them, keeps them where it does not, sets updated_at and touches
\* nothing else (so with both absent only updated_at changes); an accepted
\* PatchItem writes prep_status, qty_used, note and qty_requested where the
\* call carries them, keeps them where it does not and touches nothing else
\* (so with all four absent no stored field changes).
C7_MergeOnNull ==
    /\ \A u \in Privileged, r \in DOMAIN requests, p \in MRUpdateIn, t \in NowReadings :
          LET out == update_material_request(u, r, p, t)
          IN /\ out.code = 200
             /\ out.items = items
             /\ DOMAIN out.requests = DOMAIN requests
             /\ \A q \in DOMAIN requests \ {r} : out.requests[q] = requests[q]
             /\ out.requests[r] =
                   [requests[r] EXCEPT !.memo = Merged(p.memo, @),
                                       !.warehouse_id = Merged(p.warehouse_id, @),
                                       !.updated_at = Some(t)]
             /\ (p.memo = None /\ p.warehouse_id = None) =>
                   out.requests[r] = [requests[r] EXCEPT !.updated_at = Some(t)]
    /\ \A u \in ActiveUserIds, i \in DOMAIN items, p \in MRItemPatchIn :
          LET out == patch_material_request_item(u, i, p)
          IN out.code = 200 =>
                /\ out.requests = requests
                /\ DOMAIN out.items = DOMAIN items
                /\ \A j \in DOMAIN items \ {i} : out.items[j] = items[j]
                /\ out.items[i] =
                      [items[i] EXCEPT !.prep_status = Merged(p.prep_status, @),
                                       !.qty_used = Merged(p.qty_used, @),
                                       !.note = Merged(p.note, @),
                                       !.qty_requested = Merged(p.qty_requested, @)]
    /\ \A u \in ActiveUserIds, i \in ItemIdInputs :
          LET out == patch_material_request_item(u, i,
                         [prep_status |-> None, qty_used |-> None, note |-> None, qty_requested |-> None])
          IN out.code = 200 /\ SameTables(out)

\* C7 witness: a PatchItem was accepted on an item none of whose four fields
\* still holds its value of creation, in a request whose memo and warehouse
\* were updated.
C7_Witness ==
    /\ resp.op = "patch" /\ resp.code = 200
    /\ \E i \in DOMAIN items :
          /\ items[i].prep_status = Some("READY")
          /\ items[i].qty_used = Some(1)
          /\ items[i].note = Some("n")
          /\ items[i].qty_requested = Some(1)
          /\ requests[items[i].material_request_id].memo = Some("m")
          /\ requests[items[i].material_request_id].warehouse_id = Some(1)
          /\ requests[items[i].material_request_id].updated_at = Some(1)

\* C8: a header is stored only by a Create that reached its commit, and then
\* with every item supplied with it; a Create that is still running or has
\* failed (at its header or at any of its items) has stored nothing.
C8_CreateAtomic ==
    /\ \A r \in DOMAIN requests : r \in DOMAIN creates /\ creates[r].state = "committed"
    /\ \A i \in DOMAIN items : items[i].material_request_id \in DOMAIN requests
    /\ \A r \in DOMAIN creates :
          IF creates[r].state = "committed"
          THEN r \in DOMAIN requests /\ Cardinality(ItemsOf(r)) = creates[r].n
          ELSE r \notin DOMAIN requests /\ ItemsOf(r) = {}

\* C8 witness: a Create of two items failed at its second item, after the
\* header and the first item were inserted.
C8_Witness ==
    /\ resp.op = "create" /\ resp.code = 500
    /\ \E r \in DOMAIN creates :
          creates[r].state = "failed" /\ creates[r].n = 2 /\ creates[r].inserted = 1

PatchFields == {"prep_status", "qty_used", "note", "qty_requested"}

\* The committed patches of an item that carried field f, in commit order.
Supplied(i, f) ==
    SelectSeq(patchLog, LAMBDA e : e.item_id = i /\ e.payload[f] # None)

\* C10: after any interleaving of PatchItem calls, each field of an item
\* holds what the last-committed patch that carried the field supplied, and
\* its value of creation when no committed patch carried it.
C10_LastWriteWins ==
    \A i \in DOMAIN items, f \in PatchFields :
        LET w == Supplied(i, f)
        IN items[i][f] = IF w = <<>> THEN new_item(items[i].material_request_id, TxItemIn)[f]
                         ELSE w[Len(w)].payload[f]

\* C10 witness: two patches of one item were in flight together; both carried
\* prep_status with different values, only the earlier carried note.
C10_Witness ==
    /\ Len(patchLog) = 2
    /\ patchLog[1].item_id = patchLog[2].item_id
    /\ patchLog[1].overlapped
    /\ patchLog[1].payload.prep_status = Some("READY")
    /\ patchLog[2].payload.prep_status = Some("PREPARING")
    /\ patchLog[1].payload.note = Some("n")
    /\ patchLog[2].payload.note = None

====
